---- MODULE Spec2Model ----
(***************************************************************************)
(* Stock / order quantity reconciliation of the orders backend             *)
(* (src/server.js): the Stock and Order collections and the three order    *)
(* handlers POST /api/orders, PUT /api/orders/:id, DELETE /api/orders/:id. *)
(* Under Spec every request runs to completion before the next one starts. *)
(* req and res hold the request being answered; before and created are     *)
(* history: the collections as that request found them, and the            *)
(* collections as the latest create that wrote to them found them.         *)
(* SpecAdmin adds the stock and category deletions to the serial requests. *)
(* SpecConc and SpecFault run the handlers one storage call at a time:     *)
(* procs holds, per request in flight, its position and the documents it   *)
(* has loaded. SpecConc interleaves two requests; SpecFault runs one       *)
(* request at a time and lets every write fail.                            *)
(* SpecTwin answers the same requests in two runs that differ in the       *)
(* status values supplied; runs holds the two runs.                        *)
(***************************************************************************)
EXTENDS Integers, FiniteSets, TLC

VARIABLES stocks, orders, categories, nextId, req, res, before, created,
          served, procs, runs

vars == <<stocks, orders, categories, nextId, req, res, before, created,
          served, procs, runs>>

(* ------------------------------ bounds -------------------------------- *)

\* number of requests the server handles in one behaviour
MaxRequests == 3
\* requested quantities range over -1 .. MaxQty
MaxQty == 2
\* number of requests the two compared runs answer
MaxTwinRequests == 2

(* ------------------------------ inputs -------------------------------- *)

StockIds == {"s1", "s2"}
\* an id that resolves to no Stock document
GhostId == "s9"
SizeLabels == {"M", "L"}
\* the seeded category slugs
Slugs == {"hoodie", "pants", "jeans"}
QtyInputs == (0 - 1)..MaxQty
\* ids a request can name: every id ever issued and one never issued
OrderIds == 1..MaxRequests

\* req.body with no field supplied
NoFields == [f \in {} |-> f]

Opt(field, values) == {NoFields} \cup {field :> v : v \in values}

Merge(A, B) == {a @@ b : a \in A, b \in B}

Has(body, field) == field \in DOMAIN body

Without(body, field) == [f \in DOMAIN body \ {field} |-> body[f]]

\* bodies with every field the handler tests, category and qty optional;
\* one of them names an item that does not exist
CompleteBodies ==
  Merge({"customerName" :> "Ann" @@ "phone" :> "555"},
        Merge({"itemId" :> i : i \in StockIds},
              Merge({"size" :> z : z \in SizeLabels},
                    Merge(Opt("category", {"hoodie"}),
                          Opt("qty", QtyInputs))))
        \cup {"itemId" :> GhostId @@ "size" :> "M"})

RequiredFields == {"customerName", "phone", "itemId", "size"}

\* one complete body with one required field left out
IncompleteBodies ==
  {Without("customerName" :> "Ann" @@ "phone" :> "555" @@ "itemId" :> "s1"
           @@ "size" :> "M" @@ "qty" :> 1, f) : f \in RequiredFields}

CreateBodies == CompleteBodies \cup IncompleteBodies

\* every patch of item, size and qty; one of them names an item that does
\* not exist
UpdateBodies ==
  Merge(Opt("itemId", StockIds),
        Merge(Opt("size", SizeLabels), Opt("qty", QtyInputs)))
  \cup {"itemId" :> GhostId}

(* ------------------------------ helpers ------------------------------- *)

\* Number((stock.sizes && stock.sizes[size]) || 0)
Count(sizes, size) == IF size \in DOMAIN sizes THEN sizes[size] ELSE 0

\* stock.sizes[size] = v
SetSize(sizes, size, v) ==
  [k \in DOMAIN sizes \cup {size} |-> IF k = size THEN v ELSE sizes[k]]

\* the counter of a (possibly missing) stock document
Avail(st, id, size) == IF id \in DOMAIN st THEN Count(st[id].sizes, size) ELSE 0

\* stock.sizes[size] = v; stock.markModified("sizes"); await stock.save()
SaveSize(st, id, size, v) == [st EXCEPT ![id].sizes = SetSize(@, size, v)]

DefaultQty == 1

\* Number(qty || 1): a missing qty and qty 0 are both falsy
Want(body) == IF Has(body, "qty") /\ body.qty # 0 THEN body.qty ELSE DefaultQty

InsufficientMut(current, want) == current < want - 1

\* if (current < want)
Insufficient(current, want) == current < want

\* current - want
Reserved(current, want) == current - want

ReleasedMut(current, qty) == current + qty + 1

\* current + order.qty
Released(current, qty) == current + qty

Abs(n) == IF n < 0 THEN 0 - n ELSE n

(* ------------------------------- state -------------------------------- *)

NoSnapshot == [taken |-> FALSE]

\* no request is being handled step by step
NoProcs == [p \in {} |-> p]

\* no second run is being compared
NoRuns == [started |-> FALSE]

InitStocks ==
  [id \in StockIds |->
     IF id = "s1" THEN [category |-> "hoodie", sizes |-> ("M" :> 2)]
                  ELSE [category |-> "pants", sizes |-> ("M" :> 1 @@ "L" :> 1)]]

Init ==
  /\ stocks = InitStocks
  /\ orders = [i \in {} |-> i]
  /\ categories = Slugs
  /\ nextId = 1
  /\ req = [op |-> "none"]
  /\ res = [code |-> 0]
  /\ before = [stocks |-> InitStocks, orders |-> [i \in {} |-> i]]
  /\ created = NoSnapshot
  /\ served = 0
  /\ procs = NoProcs
  /\ runs = NoRuns

\* the previous request is answered and the server can take another one
Ready == req.op = "none" /\ served < MaxRequests

\* the server takes a request; before keeps the collections as the request
\* found them
Serve ==
  /\ served' = served + 1
  /\ before' = [stocks |-> stocks, orders |-> orders]
  /\ UNCHANGED <<procs, runs>>

\* a handler returns without writing
Reject(r, response) ==
  /\ Serve
  /\ req' = r
  /\ res' = response
  /\ created' = IF r.op \in {"create", "delete"} THEN created ELSE NoSnapshot
  /\ UNCHANGED <<stocks, orders, categories, nextId>>

(* --------------------------- POST /api/orders -------------------------- *)

MissingFieldsMut(body) ==
  ~(Has(body, "phone") /\ Has(body, "itemId") /\ Has(body, "size"))

\* if (!customerName || !phone || !itemId || !size)
MissingFields(body) ==
  ~(Has(body, "customerName") /\ Has(body, "phone")
    /\ Has(body, "itemId") /\ Has(body, "size"))

\* category: { type: String, required: true }: Order.create throws a
\* validation error for a body without category
OrderInvalid(body) == ~Has(body, "category")

CaughtInCreateMut(found, saved) == found

\* catch (err) { ... res.status(500) }: no write, the collections stay as
\* the failed call left them
CaughtInCreate(found, saved) == saved

\* id of the order document of a create that stored none
NoOrderId == 0

CreateOrder(body) ==
  Ready /\
  LET r == [op |-> "create", body |-> body] IN
  IF MissingFields(body)
  THEN Reject(r, [code |-> 400, error |-> "missing fields"])
  ELSE IF body.itemId \notin DOMAIN stocks
  THEN Reject(r, [code |-> 400, error |-> "stock item not found"])
  ELSE
    LET want == Want(body)
        current == Count(stocks[body.itemId].sizes, body.size)
    IN IF Insufficient(current, want)
       THEN Reject(r, [code |-> 400, error |-> "not enough stock",
                       available |-> current])
       ELSE IF OrderInvalid(body)
       THEN /\ Serve
            /\ stocks' = CaughtInCreate(stocks,
                            SaveSize(stocks, body.itemId, body.size,
                                     Reserved(current, want)))
            /\ req' = r
            /\ res' = [code |-> 500, error |-> "server error"]
            /\ created' = [taken |-> TRUE, id |-> NoOrderId, body |-> body,
                            stocks |-> stocks, orders |-> orders,
                            prior |-> created]
            /\ UNCHANGED <<orders, categories, nextId>>
       ELSE /\ Serve
            /\ stocks' = SaveSize(stocks, body.itemId, body.size,
                                  Reserved(current, want))
            /\ orders' = orders @@
                 (nextId :> [itemId |-> body.itemId, size |-> body.size,
                             qty |-> want])
            /\ nextId' = nextId + 1
            /\ req' = r
            /\ res' = [code |-> 200, orderId |-> nextId]
            /\ created' = [taken |-> TRUE, id |-> nextId, body |-> body,
                            stocks |-> stocks, orders |-> orders,
                            prior |-> created]
            /\ UNCHANGED categories


(* --------------------------- PUT /api/orders/:id ----------------------- *)

\* body.qty !== undefined ? Number(body.qty) : oldQty
NewQty(body, oldQty) == IF Has(body, "qty") THEN body.qty ELSE oldQty

\* body.itemId || oldItemId
NewItemId(body, oldItemId) == IF Has(body, "itemId") THEN body.itemId ELSE oldItemId

\* body.size || oldSize
NewSize(body, oldSize) == IF Has(body, "size") THEN body.size ELSE oldSize

\* if (current < diff), reached when diff > 0
NotEnoughToIncrease(current, diff) == current < diff

AdjustOnQtyChangeMut(st, id, size, current, diff) ==
  IF diff > 0 THEN SaveSize(st, id, size, current - diff)
  ELSE IF diff < 0 THEN SaveSize(st, id, size, current - Abs(diff))
  ELSE st

\* item and size unchanged: the stock written by the accepted branch
AdjustOnQtyChange(st, id, size, current, diff) ==
  IF diff > 0 THEN SaveSize(st, id, size, current - diff)
  ELSE IF diff < 0 THEN SaveSize(st, id, size, current + Abs(diff))
  ELSE st

ReturnToOldMut(st, oldItemId, oldSize, oldQty) == st

\* return to old stock: skipped when the old stock document is gone
ReturnToOld(st, oldItemId, oldSize, oldQty) ==
  IF oldItemId \in DOMAIN st
  THEN SaveSize(st, oldItemId, oldSize,
                Count(st[oldItemId].sizes, oldSize) + oldQty)
  ELSE st

NotEnoughForNewMut(newCount, newQty) == FALSE

\* if (newCount < newQty)
NotEnoughForNew(newCount, newQty) == newCount < newQty

\* the new stock document written from a copy read before the old stock
\* was saved
TakeFromNewMut(st, newItemId, newSize, newCount, newQty) ==
  [st EXCEPT ![newItemId] =
     [stocks[newItemId] EXCEPT !.sizes =
        SetSize(@, newSize, Count(@, newSize) - newQty)]]

\* take from new stock, read after the old stock was saved
TakeFromNew(st, newItemId, newSize, newCount, newQty) ==
  SaveSize(st, newItemId, newSize, newCount - newQty)

\* order.itemId = newItemId; order.size = newSize; order.qty = newQty
Patched(order, newItemId, newSize, newQty) ==
  [order EXCEPT !.itemId = newItemId, !.size = newSize, !.qty = newQty]

\* the handler returns an error after the stock writes in st
Fail(r, response, st) ==
  /\ Serve
  /\ stocks' = st
  /\ req' = r
  /\ res' = response
  /\ created' = NoSnapshot
  /\ UNCHANGED <<orders, categories, nextId>>

\* stock writes in st, then order.save()
Accept(r, id, st, order) ==
  /\ Serve
  /\ stocks' = st
  /\ orders' = [orders EXCEPT ![id] = order]
  /\ req' = r
  /\ res' = [code |-> 200, orderId |-> id]
  /\ created' = NoSnapshot
  /\ UNCHANGED <<categories, nextId>>

UpdateOrder(id, body) ==
  Ready /\
  LET r == [op |-> "update", id |-> id, body |-> body] IN
  IF id \notin DOMAIN orders
  THEN Reject(r, [code |-> 404, error |-> "order not found"])
  ELSE
    LET order == orders[id]
        oldQty == order.qty
        oldItemId == order.itemId
        oldSize == order.size
        newQty == NewQty(body, oldQty)
        newItemId == NewItemId(body, oldItemId)
        newSize == NewSize(body, oldSize)
        patched == Patched(order, newItemId, newSize, newQty)
    IN
    IF newItemId = oldItemId /\ newSize = oldSize
    THEN
      IF newItemId \notin DOMAIN stocks
      THEN Reject(r, [code |-> 400, error |-> "stock item missing"])
      ELSE
        LET current == Count(stocks[newItemId].sizes, newSize)
            diff == newQty - oldQty
        IN IF diff > 0 /\ NotEnoughToIncrease(current, diff)
           THEN Reject(r, [code |-> 400,
                           error |-> "not enough stock to increase",
                           available |-> current])
           ELSE Accept(r, id,
                       AdjustOnQtyChange(stocks, newItemId, newSize,
                                         current, diff),
                       patched)
    ELSE
      LET returned == ReturnToOld(stocks, oldItemId, oldSize, oldQty) IN
      IF newItemId \notin DOMAIN returned
      THEN Fail(r, [code |-> 400, error |-> "new stock item missing"],
                returned)
      ELSE
        LET newCount == Count(returned[newItemId].sizes, newSize) IN
        IF NotEnoughForNew(newCount, newQty)
        THEN Fail(r, [code |-> 400,
                      error |-> "not enough stock for new item",
                      available |-> newCount],
                  returned)
        ELSE Accept(r, id,
                    TakeFromNew(returned, newItemId, newSize,
                                newCount, newQty),
                    patched)

\* the handler returns before it reads the body when the order is not found
UpdateBodiesFor(id) == IF id \in DOMAIN orders THEN UpdateBodies ELSE {NoFields}

(* ------------------------- DELETE /api/orders/:id ---------------------- *)

\* the stock document put back by an upsert
ReleaseOnDeleteMut(st, order) ==
  [id \in DOMAIN st \cup {order.itemId} |->
     IF id = order.itemId
     THEN [category |-> "hoodie",
           sizes |-> SetSize(IF id \in DOMAIN st THEN st[id].sizes
                             ELSE NoFields,
                             order.size,
                             Released(Avail(st, id, order.size), order.qty))]
     ELSE st[id]]

\* if (stock) { ... await stock.save() }: skipped when the stock is gone
ReleaseOnDelete(st, order) ==
  IF order.itemId \in DOMAIN st
  THEN SaveSize(st, order.itemId, order.size,
                Released(Count(st[order.itemId].sizes, order.size), order.qty))
  ELSE st

DeleteOrder(id) ==
  Ready /\
  LET r == [op |-> "delete", id |-> id] IN
  IF id \notin DOMAIN orders
  THEN Reject(r, [code |-> 404, error |-> "order not found"])
  ELSE
    LET order == orders[id] IN
    /\ Serve
    /\ stocks' = ReleaseOnDelete(stocks, order)
    /\ orders' = [i \in DOMAIN orders \ {id} |-> orders[i]]
    /\ req' = r
    /\ res' = [code |-> 200]
    /\ UNCHANGED <<categories, nextId, created>>

(* ------------------------- DELETE /api/stocks/:id ---------------------- *)

\* Stock.deleteOne({ _id: id })
WithoutStock(st, id) == [i \in DOMAIN st \ {id} |-> st[i]]

DeleteStock(id) ==
  Ready /\
  LET r == [op |-> "deleteStock", id |-> id] IN
  IF id \notin DOMAIN stocks
  THEN Reject(r, [code |-> 404, error |-> "stock not found"])
  ELSE /\ Serve
       /\ stocks' = WithoutStock(stocks, id)
       /\ req' = r
       /\ res' = [code |-> 200]
       /\ created' = NoSnapshot
       /\ UNCHANGED <<orders, categories, nextId>>

(* ---------------------- DELETE /api/categories/:slug ------------------- *)

\* Stock.find({ category: slug }) mapped to the ids
StockIdsOf(st, slug) == {id \in DOMAIN st : st[id].category = slug}

OrdersNotOfMut(ords, stockIds) == ords

\* Order.deleteMany({ itemId: { $in: stockIds } })
OrdersNotOf(ords, stockIds) ==
  [i \in {j \in DOMAIN ords : ords[j].itemId \notin stockIds} |-> ords[i]]

\* Stock.deleteMany({ category: slug })
StocksNotIn(st, slug) ==
  [i \in {j \in DOMAIN st : st[j].category # slug} |-> st[i]]

DeleteCategory(slug) ==
  /\ Ready
  /\ served' = served + 1
  /\ before' = [stocks |-> stocks, orders |-> orders]
  /\ categories' = categories \ {slug}
  /\ orders' = OrdersNotOf(orders, StockIdsOf(stocks, slug))
  /\ stocks' = StocksNotIn(stocks, slug)
  /\ req' = [op |-> "deleteCategory", slug |-> slug]
  /\ res' = [code |-> 200]
  /\ created' = NoSnapshot
  /\ UNCHANGED <<nextId, procs, runs>>

(* ------------------------------ responses ------------------------------ *)

\* res.json(...) has been sent: the request is over
Finish ==
  /\ req.op # "none"
  /\ served < MaxRequests
  /\ req' = [op |-> "none"]
  /\ res' = [code |-> 0]
  /\ before' = [stocks |-> stocks, orders |-> orders]
  /\ created' = IF req.op = "create" /\ res.code \in {200, 500}
                 THEN [created EXCEPT !.prior = NoSnapshot]
                 ELSE NoSnapshot
  /\ UNCHANGED <<stocks, orders, categories, nextId, served, procs, runs>>

Next ==
  \/ \E body \in CreateBodies : CreateOrder(body)
  \/ \E id \in OrderIds :
       \E body \in UpdateBodiesFor(id) : UpdateOrder(id, body)
  \/ \E id \in OrderIds : DeleteOrder(id)
  \/ Finish

Spec == Init /\ [][Next]_vars

\* the serial requests with the stock and category deletions
NextAdmin ==
  \/ Next
  \/ \E id \in StockIds \cup {GhostId} : DeleteStock(id)
  \/ \E slug \in Slugs : DeleteCategory(slug)

SpecAdmin == Init /\ [][NextAdmin]_vars

(* --------------- the handlers, one storage call at a time -------------- *)

\* the requests in flight
Procs == {"a", "b"}

Idle == [pc |-> "idle"]

\* a findById that has not run or has found nothing
NoDoc == [found |-> FALSE]

ServerError == [code |-> 500, error |-> "server error"]

PosQty == 1..MaxQty

StepCreateBodies == {b \in CreateBodies : Has(b, "qty") => b.qty \in PosQty}

StepUpdateBodies == {b \in UpdateBodies : Has(b, "qty") => b.qty \in PosQty}

\* the requests with a positive qty or none
StepRequests ==
  {[op |-> "create", body |-> b] : b \in StepCreateBodies}
  \cup UNION {{[op |-> "update", id |-> i, body |-> b] :
                 b \in IF i \in DOMAIN orders THEN StepUpdateBodies
                       ELSE {NoFields}} : i \in OrderIds}
  \cup {[op |-> "delete", id |-> i] : i \in OrderIds}

\* the storage call a handler starts with
FirstCall(op) ==
  CASE op = "create" -> "cFind"
    [] op = "update" -> "uOrder"
    [] op = "delete" -> "dOrder"

\* the positions at which a request holds a stock document it has changed
\* in memory and not saved
SavePcs == {"cSave", "uSave", "uSaveOld", "uSaveNew", "dSave"}

\* update and delete: the storage call that follows the one at pc
AfterInUpdateDelete(pc) ==
  CASE pc = "uFind" -> "uSave"
    [] pc = "uSave" -> "uSaveOrder"
    [] pc = "uSaveOld" -> "uNew"
    [] pc = "uNew" -> "uSaveNew"
    [] pc = "uSaveNew" -> "uSaveOrder"
    [] pc = "uSaveOrder" -> "done"
    [] pc = "dSave" -> "dRemove"
    [] pc = "dRemove" -> "done"

\* Order.create before stock.save
AfterMut(pc) ==
  CASE pc = "cFind" -> "cOrder"
    [] pc = "cOrder" -> "cSave"
    [] pc = "cSave" -> "done"
    [] OTHER -> AfterInUpdateDelete(pc)

\* the storage call that follows the one at pc when it returns; create:
\* Stock.findById, stock.save, Order.create
After(pc) ==
  CASE pc = "cFind" -> "cSave"
    [] pc = "cSave" -> "cOrder"
    [] pc = "cOrder" -> "done"
    [] OTHER -> AfterInUpdateDelete(pc)

\* res.status(...).json(...) on an early return
Answer(rec, response) == [rec EXCEPT !.pc = "done", !.res = response]

\* the awaited call returned: on to the next one, or res.json({ ok: true })
Go(rec) ==
  IF After(rec.pc) = "done"
  THEN Answer(rec, [code |-> 200, orderId |-> rec.made])
  ELSE [rec EXCEPT !.pc = After(rec.pc)]

\* the awaited call threw: catch (err) { res.status(500) }
Throw(rec) ==
  [rec EXCEPT !.threw = rec.pc, !.pc = "done", !.res = ServerError]

\* the stock document in memory: sizes as found and as changed
Loaded(st, id, sizes) ==
  [found |-> TRUE, id |-> id, was |-> st[id].sizes, sizes |-> sizes]

\* another request holds a changed copy of stock id it has not saved
Racing(p, id) ==
  \E q \in DOMAIN procs \ {p} :
    procs[q].pc \in SavePcs /\ procs[q].doc.id = id

\* a save that adds the difference to the stored counters
WriteDocMut(st, doc) ==
  [st EXCEPT ![doc.id].sizes =
     [k \in DOMAIN @ \cup DOMAIN doc.sizes |->
        Count(@, k) + Count(doc.sizes, k) - Count(doc.was, k)]]

\* stock.markModified("sizes"); await stock.save(): the whole sizes object
\* of the copy in memory replaces the stored one
WriteDoc(st, doc) == [st EXCEPT ![doc.id].sizes = doc.sizes]

\* order.save() writes the paths the handler changed
Overlay(stored, found, patched) ==
  [f \in DOMAIN stored |->
     IF patched[f] # found[f] THEN patched[f] ELSE stored[f]]

\* what the step-by-step handlers never touch
StepFrame == UNCHANGED <<categories, req, res, before, created, runs>>

\* a request arrives at a handler that is in one of the positions from
Begin(p, from) ==
  /\ served < MaxRequests
  /\ procs[p].pc \in from
  /\ served' = served + 1
  /\ \E r \in StepRequests :
       procs' = [procs EXCEPT ![p] =
         [pc |-> FirstCall(r.op), req |-> r,
          start |-> [stocks |-> stocks, orders |-> orders],
          order |-> NoDoc, doc |-> NoDoc, read |-> 0, raced |-> FALSE,
          made |-> NoOrderId, threw |-> "none", res |-> [code |-> 0]]]
  /\ UNCHANGED <<stocks, orders, nextId>>
  /\ StepFrame

\* await stock.save()
SaveStock(p, ok) ==
  /\ IF ok /\ procs[p].doc.id \in DOMAIN stocks
     THEN /\ stocks' = WriteDoc(stocks, procs[p].doc)
          /\ procs' = [procs EXCEPT ![p] = Go(@)]
     ELSE /\ procs' = [procs EXCEPT ![p] = Throw(@)]
          /\ UNCHANGED stocks
  /\ UNCHANGED <<orders, nextId, served>>
  /\ StepFrame

\* POST /api/orders: the field test, Stock.findById and the stock test
CreateFindStock(p) ==
  /\ procs[p].pc = "cFind"
  /\ LET rec == procs[p]
         body == rec.req.body
     IN procs' = [procs EXCEPT ![p] =
          IF MissingFields(body)
          THEN Answer(rec, [code |-> 400, error |-> "missing fields"])
          ELSE IF body.itemId \notin DOMAIN stocks
          THEN Answer(rec, [code |-> 400, error |-> "stock item not found"])
          ELSE
            LET want == Want(body)
                current == Count(stocks[body.itemId].sizes, body.size)
            IN IF Insufficient(current, want)
               THEN Answer(rec, [code |-> 400, error |-> "not enough stock",
                                 available |-> current])
               ELSE Go([rec EXCEPT
                         !.doc = Loaded(stocks, body.itemId,
                                   SetSize(stocks[body.itemId].sizes,
                                           body.size,
                                           Reserved(current, want))),
                         !.read = current,
                         !.raced = Racing(p, body.itemId)])]
  /\ UNCHANGED <<stocks, orders, nextId, served>>
  /\ StepFrame

CreateSaveStock(p, ok) == procs[p].pc = "cSave" /\ SaveStock(p, ok)

\* await Order.create({...})
CreateOrderDoc(p, ok) ==
  /\ procs[p].pc = "cOrder"
  /\ LET rec == procs[p]
         body == rec.req.body
     IN IF ok /\ ~OrderInvalid(body)
        THEN /\ orders' = orders @@
                  (nextId :> [itemId |-> body.itemId, size |-> body.size,
                              qty |-> Want(body)])
             /\ nextId' = nextId + 1
             /\ procs' = [procs EXCEPT ![p] = Go([rec EXCEPT !.made = nextId])]
             /\ UNCHANGED stocks
        ELSE /\ stocks' = CaughtInCreate(rec.start.stocks, stocks)
             /\ procs' = [procs EXCEPT ![p] = Throw(rec)]
             /\ UNCHANGED <<orders, nextId>>
  /\ UNCHANGED served
  /\ StepFrame

\* item, size and qty the update of rec resolves to
ItemOf(rec) == NewItemId(rec.req.body, rec.order.itemId)

SizeOf(rec) == NewSize(rec.req.body, rec.order.size)

QtyOf(rec) == NewQty(rec.req.body, rec.order.qty)

\* PUT /api/orders/:id: Order.findById and the choice of the branch
UpdateFindOrder(p) ==
  /\ procs[p].pc = "uOrder"
  /\ LET rec == procs[p]
         id == rec.req.id
     IN procs' = [procs EXCEPT ![p] =
          IF id \notin DOMAIN orders
          THEN Answer(rec, [code |-> 404, error |-> "order not found"])
          ELSE LET found == [rec EXCEPT !.order = orders[id], !.made = id]
               IN [found EXCEPT !.pc =
                     IF ItemOf(found) = found.order.itemId
                        /\ SizeOf(found) = found.order.size
                     THEN "uFind" ELSE "uOld"]]
  /\ UNCHANGED <<stocks, orders, nextId, served>>
  /\ StepFrame

\* item and size unchanged: Stock.findById and the stock test
UpdateFindStock(p) ==
  /\ procs[p].pc = "uFind"
  /\ LET rec == procs[p]
         id == ItemOf(rec)
         size == SizeOf(rec)
     IN procs' = [procs EXCEPT ![p] =
          IF id \notin DOMAIN stocks
          THEN Answer(rec, [code |-> 400, error |-> "stock item missing"])
          ELSE
            LET current == Count(stocks[id].sizes, size)
                diff == QtyOf(rec) - rec.order.qty
            IN IF diff > 0 /\ NotEnoughToIncrease(current, diff)
               THEN Answer(rec, [code |-> 400,
                                 error |-> "not enough stock to increase",
                                 available |-> current])
               ELSE Go([rec EXCEPT
                         !.doc = Loaded(stocks, id,
                                   AdjustOnQtyChange(stocks, id, size,
                                                     current, diff)[id].sizes),
                         !.read = current,
                         !.raced = @ \/ Racing(p, id)])]
  /\ UNCHANGED <<stocks, orders, nextId, served>>
  /\ StepFrame

UpdateSaveStock(p, ok) == procs[p].pc = "uSave" /\ SaveStock(p, ok)

\* item or size changed: Stock.findById(oldItemId)
UpdateFindOld(p) ==
  /\ procs[p].pc = "uOld"
  /\ LET rec == procs[p]
         id == rec.order.itemId
     IN procs' = [procs EXCEPT ![p] =
          IF id \in DOMAIN stocks
          THEN [rec EXCEPT
                 !.doc = Loaded(stocks, id,
                           ReturnToOld(stocks, id, rec.order.size,
                                       rec.order.qty)[id].sizes),
                 !.raced = @ \/ Racing(p, id),
                 !.pc = "uSaveOld"]
          ELSE [rec EXCEPT !.pc = "uNew"]]
  /\ UNCHANGED <<stocks, orders, nextId, served>>
  /\ StepFrame

UpdateSaveOld(p, ok) == procs[p].pc = "uSaveOld" /\ SaveStock(p, ok)

\* item or size changed: Stock.findById(newItemId) and the stock test
UpdateFindNew(p) ==
  /\ procs[p].pc = "uNew"
  /\ LET rec == procs[p]
         id == ItemOf(rec)
         size == SizeOf(rec)
     IN procs' = [procs EXCEPT ![p] =
          IF id \notin DOMAIN stocks
          THEN Answer(rec, [code |-> 400, error |-> "new stock item missing"])
          ELSE
            LET newCount == Count(stocks[id].sizes, size) IN
            IF NotEnoughForNew(newCount, QtyOf(rec))
            THEN Answer(rec, [code |-> 400,
                              error |-> "not enough stock for new item",
                              available |-> newCount])
            ELSE Go([rec EXCEPT
                      !.doc = Loaded(stocks, id,
                                TakeFromNew(stocks, id, size, newCount,
                                            QtyOf(rec))[id].sizes),
                      !.read = newCount,
                      !.raced = @ \/ Racing(p, id)])]
  /\ UNCHANGED <<stocks, orders, nextId, served>>
  /\ StepFrame

UpdateSaveNew(p, ok) == procs[p].pc = "uSaveNew" /\ SaveStock(p, ok)

\* await order.save(): throws when the document is gone
UpdateSaveOrder(p, ok) ==
  /\ procs[p].pc = "uSaveOrder"
  /\ LET rec == procs[p]
         id == rec.req.id
     IN IF ok /\ id \in DOMAIN orders
        THEN /\ orders' = [orders EXCEPT ![id] =
                  Overlay(@, rec.order,
                          Patched(rec.order, ItemOf(rec), SizeOf(rec),
                                  QtyOf(rec)))]
             /\ procs' = [procs EXCEPT ![p] = Go(rec)]
        ELSE /\ procs' = [procs EXCEPT ![p] = Throw(rec)]
             /\ UNCHANGED orders
  /\ UNCHANGED <<stocks, nextId, served>>
  /\ StepFrame

\* DELETE /api/orders/:id: Order.findById
DeleteFindOrder(p) ==
  /\ procs[p].pc = "dOrder"
  /\ LET rec == procs[p]
         id == rec.req.id
     IN procs' = [procs EXCEPT ![p] =
          IF id \notin DOMAIN orders
          THEN Answer(rec, [code |-> 404, error |-> "order not found"])
          ELSE [rec EXCEPT !.order = orders[id], !.made = id, !.pc = "dFind"]]
  /\ UNCHANGED <<stocks, orders, nextId, served>>
  /\ StepFrame

\* Stock.findById(order.itemId)
DeleteFindStock(p) ==
  /\ procs[p].pc = "dFind"
  /\ LET rec == procs[p]
         id == rec.order.itemId
     IN procs' = [procs EXCEPT ![p] =
          IF id \in DOMAIN stocks
          THEN [rec EXCEPT
                 !.doc = Loaded(stocks, id,
                           ReleaseOnDelete(stocks, rec.order)[id].sizes),
                 !.read = Count(stocks[id].sizes, rec.order.size),
                 !.raced = @ \/ Racing(p, id),
                 !.pc = "dSave"]
          ELSE [rec EXCEPT !.pc = "dRemove"]]
  /\ UNCHANGED <<stocks, orders, nextId, served>>
  /\ StepFrame

DeleteSaveStock(p, ok) == procs[p].pc = "dSave" /\ SaveStock(p, ok)

\* await Order.deleteOne({ _id: id })
DeleteOrderDoc(p, ok) ==
  /\ procs[p].pc = "dRemove"
  /\ LET rec == procs[p]
         id == rec.req.id
     IN IF ok
        THEN /\ orders' = [i \in DOMAIN orders \ {id} |-> orders[i]]
             /\ procs' = [procs EXCEPT ![p] = Go(rec)]
        ELSE /\ procs' = [procs EXCEPT ![p] = Throw(rec)]
             /\ UNCHANGED orders
  /\ UNCHANGED <<stocks, nextId, served>>
  /\ StepFrame

\* the storage calls that only read
Read(p) ==
  \/ CreateFindStock(p)
  \/ UpdateFindOrder(p)
  \/ UpdateFindStock(p)
  \/ UpdateFindOld(p)
  \/ UpdateFindNew(p)
  \/ DeleteFindOrder(p)
  \/ DeleteFindStock(p)

\* the storage calls that write; ok: the call returns rather than throws
Write(p, ok) ==
  \/ CreateSaveStock(p, ok)
  \/ CreateOrderDoc(p, ok)
  \/ UpdateSaveStock(p, ok)
  \/ UpdateSaveOld(p, ok)
  \/ UpdateSaveNew(p, ok)
  \/ UpdateSaveOrder(p, ok)
  \/ DeleteSaveStock(p, ok)
  \/ DeleteOrderDoc(p, ok)

\* the collections after order 1 on s1/M and order 2 on s2/M, qty 1 each,
\* were created from InitStocks
StepStocks == SaveSize(SaveSize(InitStocks, "s1", "M", 1), "s2", "M", 0)

StepOrders ==
  (1 :> [itemId |-> "s1", size |-> "M", qty |-> 1])
  @@ (2 :> [itemId |-> "s2", size |-> "M", qty |-> 1])

InitSteps(ps) ==
  /\ stocks = StepStocks
  /\ orders = StepOrders
  /\ categories = Slugs
  /\ nextId = 3
  /\ req = [op |-> "none"]
  /\ res = [code |-> 0]
  /\ before = [stocks |-> StepStocks, orders |-> StepOrders]
  /\ created = NoSnapshot
  /\ served = 0
  /\ procs = [p \in ps |-> Idle]
  /\ runs = NoRuns

\* two requests, their storage calls interleaved, every write returning
InitConc == InitSteps(Procs)

NextConc ==
  \E p \in Procs :
    \/ Begin(p, {"idle"})
    \/ Read(p)
    \/ Write(p, TRUE)

SpecConc == InitConc /\ [][NextConc]_vars

\* one request at a time, every write either returning or throwing
InitFault == InitSteps({"a"})

NextFault ==
  \/ Begin("a", {"idle", "done"})
  \/ Read("a")
  \/ \E ok \in BOOLEAN : Write("a", ok)

SpecFault == InitFault /\ [][NextFault]_vars

(* ------------- two runs that differ in the status values --------------- *)

\* status: { type: String, default: "pending" } and one other label
Statuses == {"pending", "cancelled"}

DefaultStatus == "pending"

\* status: status || "pending"
StatusOnCreate(body) ==
  IF Has(body, "status") THEN body.status ELSE DefaultStatus

\* order.status = body.status ?? order.status
StatusOnUpdate(body, order) ==
  IF Has(body, "status") THEN body.status ELSE order.status

\* POST /api/orders as a function of the collections of a run
Created(run, body) ==
  IF MissingFields(body)
  THEN [run EXCEPT !.res = [code |-> 400, error |-> "missing fields"]]
  ELSE IF body.itemId \notin DOMAIN run.stocks
  THEN [run EXCEPT !.res = [code |-> 400, error |-> "stock item not found"]]
  ELSE
    LET want == Want(body)
        current == Count(run.stocks[body.itemId].sizes, body.size)
        saved == SaveSize(run.stocks, body.itemId, body.size,
                          Reserved(current, want))
    IN IF Insufficient(current, want)
       THEN [run EXCEPT !.res = [code |-> 400, error |-> "not enough stock",
                                 available |-> current]]
       ELSE IF OrderInvalid(body)
       THEN [run EXCEPT !.stocks = CaughtInCreate(run.stocks, saved),
                        !.res = ServerError]
       ELSE [stocks |-> saved,
             orders |-> run.orders @@
               (run.nextId :> [itemId |-> body.itemId, size |-> body.size,
                               qty |-> want,
                               status |-> StatusOnCreate(body)]),
             nextId |-> run.nextId + 1,
             res |-> [code |-> 200, orderId |-> run.nextId]]

\* PUT /api/orders/:id as a function of the collections of a run
Updated(run, id, body) ==
  IF id \notin DOMAIN run.orders
  THEN [run EXCEPT !.res = [code |-> 404, error |-> "order not found"]]
  ELSE
    LET order == run.orders[id]
        newQty == NewQty(body, order.qty)
        newItemId == NewItemId(body, order.itemId)
        newSize == NewSize(body, order.size)
        patched == [Patched(order, newItemId, newSize, newQty)
                      EXCEPT !.status = StatusOnUpdate(body, order)]
        accepted == [code |-> 200, orderId |-> id]
    IN
    IF newItemId = order.itemId /\ newSize = order.size
    THEN
      IF newItemId \notin DOMAIN run.stocks
      THEN [run EXCEPT !.res = [code |-> 400, error |-> "stock item missing"]]
      ELSE
        LET current == Count(run.stocks[newItemId].sizes, newSize)
            diff == newQty - order.qty
        IN IF diff > 0 /\ NotEnoughToIncrease(current, diff)
           THEN [run EXCEPT !.res = [code |-> 400,
                                     error |-> "not enough stock to increase",
                                     available |-> current]]
           ELSE [run EXCEPT
                  !.stocks = AdjustOnQtyChange(run.stocks, newItemId, newSize,
                                               current, diff),
                  !.orders[id] = patched,
                  !.res = accepted]
    ELSE
      LET returned == ReturnToOld(run.stocks, order.itemId, order.size,
                                  order.qty)
      IN
      IF newItemId \notin DOMAIN returned
      THEN [run EXCEPT !.stocks = returned,
                       !.res = [code |-> 400,
                                error |-> "new stock item missing"]]
      ELSE
        LET newCount == Count(returned[newItemId].sizes, newSize) IN
        IF NotEnoughForNew(newCount, newQty)
        THEN [run EXCEPT !.stocks = returned,
                         !.res = [code |-> 400,
                                  error |-> "not enough stock for new item",
                                  available |-> newCount]]
        ELSE [run EXCEPT
               !.stocks = TakeFromNew(returned, newItemId, newSize,
                                      newCount, newQty),
               !.orders[id] = patched,
               !.res = accepted]

\* a delete that releases nothing for an order labelled cancelled
DeletedMut(run, id) ==
  IF id \notin DOMAIN run.orders
  THEN [run EXCEPT !.res = [code |-> 404, error |-> "order not found"]]
  ELSE [run EXCEPT
         !.stocks = IF run.orders[id].status = "cancelled" THEN run.stocks
                    ELSE ReleaseOnDelete(run.stocks, run.orders[id]),
         !.orders = [i \in DOMAIN run.orders \ {id} |-> run.orders[i]],
         !.res = [code |-> 200, orderId |-> id]]

\* DELETE /api/orders/:id as a function of the collections of a run
Deleted(run, id) ==
  IF id \notin DOMAIN run.orders
  THEN [run EXCEPT !.res = [code |-> 404, error |-> "order not found"]]
  ELSE [run EXCEPT
         !.stocks = ReleaseOnDelete(run.stocks, run.orders[id]),
         !.orders = [i \in DOMAIN run.orders \ {id} |-> run.orders[i]],
         !.res = [code |-> 200, orderId |-> id]]

\* a run before its first request
FirstRun ==
  [stocks |-> InitStocks, orders |-> [i \in {} |-> i], nextId |-> 1,
   res |-> [code |-> 0]]

\* the status a request supplies: none, or one of the labels
StatusFields == Opt("status", Statuses)

\* both runs answer the same request, each with its own status value
Twin(op, left, right) ==
  /\ runs.n < MaxTwinRequests
  /\ runs' = [started |-> TRUE, op |-> op, left |-> left, right |-> right,
              n |-> runs.n + 1]
  /\ UNCHANGED <<stocks, orders, categories, nextId, req, res, before,
                 created, served, procs>>

TwinCreate(body, l, r) ==
  Twin("create", Created(runs.left, body @@ l),
       Created(runs.right, body @@ r))

TwinUpdate(id, body, l, r) ==
  Twin("update", Updated(runs.left, id, body @@ l),
       Updated(runs.right, id, body @@ r))

TwinDelete(id) ==
  Twin("delete", Deleted(runs.left, id), Deleted(runs.right, id))

\* the handler returns before it reads the body when the order is not found
TwinUpdateBodiesFor(id) ==
  IF id \in DOMAIN runs.left.orders \cup DOMAIN runs.right.orders
  THEN StepUpdateBodies ELSE {NoFields}

InitTwin ==
  /\ stocks = InitStocks
  /\ orders = [i \in {} |-> i]
  /\ categories = Slugs
  /\ nextId = 1
  /\ req = [op |-> "none"]
  /\ res = [code |-> 0]
  /\ before = [stocks |-> InitStocks, orders |-> [i \in {} |-> i]]
  /\ created = NoSnapshot
  /\ served = 0
  /\ procs = NoProcs
  /\ runs = [started |-> TRUE, op |-> "none", left |-> FirstRun,
             right |-> FirstRun, n |-> 0]

NextTwin ==
  \/ \E body \in StepCreateBodies : \E l, r \in StatusFields :
       TwinCreate(body, l, r)
  \/ \E id \in OrderIds : \E body \in TwinUpdateBodiesFor(id) :
       \E l, r \in StatusFields : TwinUpdate(id, body, l, r)
  \/ \E id \in OrderIds : TwinDelete(id)

SpecTwin == InitTwin /\ [][NextTwin]_vars

(* ------------------------------ properties ----------------------------- *)

Complete(body) == RequiredFields \subseteq DOMAIN body

\* the quantity a create request asks for: qty, or 1 when qty is not given
Requested(body) == IF Has(body, "qty") THEN body.qty ELSE 1

HasKey(st, id, k) == id \in DOMAIN st /\ k \in DOMAIN st[id].sizes

\* every counter outside the pairs in X is as the request found it
FrameExcept(X) ==
  /\ DOMAIN stocks = DOMAIN before.stocks
  /\ \A id \in DOMAIN stocks :
       /\ stocks[id].category = before.stocks[id].category
       /\ \A k \in SizeLabels :
            <<id, k>> \notin X =>
              /\ HasKey(stocks, id, k) <=> HasKey(before.stocks, id, k)
              /\ Avail(stocks, id, k) = Avail(before.stocks, id, k)

\* the orders other than i are as the request found them
OtherOrdersKept(i) ==
  \A j \in DOMAIN before.orders \ {i} :
    j \in DOMAIN orders /\ orders[j] = before.orders[j]

RECURSIVE HeldUpTo(_, _, _)
\* sum of qty over the existing orders 1..n on (id, k)
HeldUpTo(id, k, n) ==
  IF n = 0 THEN 0
  ELSE HeldUpTo(id, k, n - 1) +
       (IF n \in DOMAIN orders /\ orders[n].itemId = id /\ orders[n].size = k
        THEN orders[n].qty ELSE 0)

Held(id, k) == HeldUpTo(id, k, nextId - 1)

\* C1: after any sequence of completed create, update and delete requests
\* with arbitrary integer quantities, every value in every stock's sizes
\* mapping is >= 0.
NonNegativeSizes ==
  \A id \in DOMAIN stocks : \A k \in DOMAIN stocks[id].sizes :
    stocks[id].sizes[k] >= 0

\* C2: in any serial sequence of order requests, accepted or rejected, each
\* counter plus the quantities of the existing orders on it equals the
\* counter's initial value.
Conservation ==
  \A id \in StockIds : \A k \in SizeLabels :
    Avail(stocks, id, k) + Held(id, k) = Avail(InitStocks, id, k)

\* C3: a successful create for (S, s, requested q) had q <= the old counter,
\* leaves the counter at old - q, changes no other counter and adds exactly
\* one order (S, s, q).
CreateReservesRequested ==
  (req.op = "create" /\ res.code = 200) =>
    LET b == req.body
        q == Requested(b)
        old == Avail(before.stocks, b.itemId, b.size)
    IN /\ q <= old
       /\ Avail(stocks, b.itemId, b.size) = old - q
       /\ FrameExcept({<<b.itemId, b.size>>})
       /\ res.orderId \notin DOMAIN before.orders
       /\ DOMAIN orders = DOMAIN before.orders \cup {res.orderId}
       /\ orders[res.orderId] = [itemId |-> b.itemId, size |-> b.size, qty |-> q]
       /\ OtherOrdersKept(res.orderId)

\* C4: a create for (S, s, q) with the counter below q is rejected, reports
\* the current counter as available and changes no counter and no order.
InsufficientCreateRejected ==
  (/\ req.op = "create"
   /\ Complete(req.body)
   /\ req.body.itemId \in DOMAIN before.stocks
   /\ Avail(before.stocks, req.body.itemId, req.body.size) < Requested(req.body))
  => /\ res.code = 400
     /\ res.error = "not enough stock"
     /\ res.available = Avail(before.stocks, req.body.itemId, req.body.size)
     /\ stocks = before.stocks
     /\ orders = before.orders

\* a create asking for available + 1 was rejected
InsufficientCreateSeen ==
  /\ req.op = "create"
  /\ Complete(req.body)
  /\ req.body.itemId \in DOMAIN before.stocks
  /\ Requested(req.body) =
       Avail(before.stocks, req.body.itemId, req.body.size) + 1
  /\ res.code = 400

\* C5: a create with qty = 0 succeeds and leaves every counter of the
\* referenced stock unchanged.
ZeroQtyCreateUnchanged ==
  (/\ req.op = "create"
   /\ Complete(req.body)
   /\ req.body.itemId \in DOMAIN before.stocks
   /\ Has(req.body, "qty")
   /\ req.body.qty = 0)
  => /\ res.code = 200
     /\ stocks[req.body.itemId] = before.stocks[req.body.itemId]

\* C6: deleting an existing order whose stock exists succeeds, adds the
\* order's qty to its counter, changes no other counter and removes exactly
\* that order.
DeleteReleases ==
  (/\ req.op = "delete"
   /\ req.id \in DOMAIN before.orders
   /\ before.orders[req.id].itemId \in DOMAIN before.stocks)
  => LET o == before.orders[req.id] IN
     /\ res.code = 200
     /\ Avail(stocks, o.itemId, o.size) =
          Avail(before.stocks, o.itemId, o.size) + o.qty
     /\ FrameExcept({<<o.itemId, o.size>>})
     /\ DOMAIN orders = DOMAIN before.orders \ {req.id}
     /\ OtherOrdersKept(req.id)

\* an order holding a positive quantity was deleted
DeleteSeen ==
  /\ req.op = "delete"
  /\ req.id \in DOMAIN before.orders
  /\ before.orders[req.id].qty > 0
  /\ req.id \notin DOMAIN orders

\* C7: a successful create followed at once by the delete of the created
\* order returns every sizes mapping and the set of orders to their state
\* before the create.
CreateDeleteRoundTrip ==
  (/\ req.op = "delete"
   /\ created.taken
   /\ req.id = created.id)
  => (stocks = created.stocks /\ orders = created.orders)

\* the update request in req names an existing order
UpdateOfExisting == req.op = "update" /\ req.id \in DOMAIN before.orders

\* the order an update request found
OldOrder == before.orders[req.id]

\* item, size and quantity an update request resolves to
ToItemId == IF Has(req.body, "itemId") THEN req.body.itemId ELSE OldOrder.itemId

ToSize == IF Has(req.body, "size") THEN req.body.size ELSE OldOrder.size

ToQty == IF Has(req.body, "qty") THEN req.body.qty ELSE OldOrder.qty

SameItemAndSize == ToItemId = OldOrder.itemId /\ ToSize = OldOrder.size

\* the order of an accepted update carries the resolved item, size and qty
OrderMovedTo ==
  /\ DOMAIN orders = DOMAIN before.orders
  /\ orders[req.id].itemId = ToItemId
  /\ orders[req.id].size = ToSize
  /\ orders[req.id].qty = ToQty
  /\ OtherOrdersKept(req.id)

\* C8: an update that keeps item and size, with diff = newQty - oldQty:
\* diff > 0 and counter >= diff lowers the counter by diff; diff > 0 and
\* counter < diff is rejected with available = counter and nothing changes;
\* diff < 0 raises the counter by -diff; diff = 0 leaves it; every accepted
\* case sets the order's qty to newQty.
QtyChangeAdjusts ==
  (/\ UpdateOfExisting
   /\ SameItemAndSize
   /\ OldOrder.itemId \in DOMAIN before.stocks)
  => LET current == Avail(before.stocks, ToItemId, ToSize)
         diff == ToQty - OldOrder.qty
     IN IF diff > 0 /\ current < diff
        THEN /\ res.code = 400
             /\ res.available = current
             /\ stocks = before.stocks
             /\ orders = before.orders
        ELSE /\ res.code = 200
             /\ Avail(stocks, ToItemId, ToSize) = current - diff
             /\ diff = 0 => stocks = before.stocks
             /\ FrameExcept({<<ToItemId, ToSize>>})
             /\ OrderMovedTo

\* an order's quantity was lowered in place
QtyChangeSeen ==
  /\ UpdateOfExisting
  /\ SameItemAndSize
  /\ ToQty < OldOrder.qty
  /\ res.code = 200

\* C9: an accepted update that changes item and/or size raises the old
\* counter by oldQty and lowers the new counter by newQty, both effects
\* present when old and new stock are the same document; no other counter
\* changes and the order ends with the new item, size and qty.
TransferMoves ==
  (/\ UpdateOfExisting
   /\ ~SameItemAndSize
   /\ OldOrder.itemId \in DOMAIN before.stocks
   /\ res.code = 200)
  => /\ Avail(stocks, OldOrder.itemId, OldOrder.size) =
          Avail(before.stocks, OldOrder.itemId, OldOrder.size) + OldOrder.qty
     /\ Avail(stocks, ToItemId, ToSize) =
          Avail(before.stocks, ToItemId, ToSize) - ToQty
     /\ FrameExcept({<<OldOrder.itemId, OldOrder.size>>, <<ToItemId, ToSize>>})
     /\ OrderMovedTo

\* an order holding a positive quantity moved to another size of its stock
TransferSeen ==
  /\ UpdateOfExisting
  /\ ToItemId = OldOrder.itemId
  /\ ToSize # OldOrder.size
  /\ OldOrder.qty > 0
  /\ ToQty > 0
  /\ res.code = 200

\* C10: every persisted order has qty >= 1, and a create whose resolved
\* quantity is negative, or an update whose resolved quantity is negative
\* or zero, is rejected and changes no counter and no order.
PositiveOrderQty ==
  /\ \A i \in DOMAIN orders : orders[i].qty >= 1
  /\ (\/ /\ req.op = "create"
         /\ Complete(req.body)
         /\ Has(req.body, "qty")
         /\ req.body.qty < 0
      \/ /\ UpdateOfExisting
         /\ ToQty <= 0)
     => /\ res.code = 400
        /\ stocks = before.stocks
        /\ orders = before.orders

\* the accepted create answered just before the request in req, if any
Earlier ==
  IF req.op = "create" /\ res.code \in {200, 500} THEN created.prior
  ELSE created

\* the ids of the orders in ords on stock id and size k
OrdersOn(ords, id, k) ==
  {i \in DOMAIN ords : ords[i].itemId = id /\ ords[i].size = k}

\* C11: of two identical creates with qty 1, one after the other, on a
\* counter that is 1, the first succeeds and the second is rejected with
\* available = 0; afterwards the counter is 0 and the two requests have
\* left exactly one order on that stock and size.
SecondIdenticalCreateRejected ==
  (/\ req.op = "create"
   /\ Earlier.taken
   /\ Earlier.body = req.body
   /\ Has(req.body, "qty")
   /\ req.body.qty = 1
   /\ Avail(Earlier.stocks, req.body.itemId, req.body.size) = 1)
  => /\ Earlier.id \in DOMAIN orders
     /\ res.code = 400
     /\ res.error = "not enough stock"
     /\ res.available = 0
     /\ Avail(stocks, req.body.itemId, req.body.size) = 0
     /\ OrdersOn(orders, req.body.itemId, req.body.size) =
          OrdersOn(Earlier.orders, req.body.itemId, req.body.size)
          \cup {Earlier.id}
     /\ orders[Earlier.id].qty = 1

\* C12: an update or delete naming no order is rejected as order not found,
\* a create naming no stock or lacking customerName, phone, itemId or size
\* is rejected, and none of them changes a counter or an order.
NotFoundChangesNothing ==
  /\ (req.op \in {"update", "delete"} /\ req.id \notin DOMAIN before.orders)
       => /\ res.code = 404
          /\ res.error = "order not found"
          /\ stocks = before.stocks
          /\ orders = before.orders
  /\ (req.op = "create"
      /\ (\/ ~Complete(req.body)
          \/ req.body.itemId \notin DOMAIN before.stocks))
       => /\ res.code = 400
          /\ stocks = before.stocks
          /\ orders = before.orders

\* a create lacking a required field was rejected
NotFoundSeen ==
  /\ req.op = "create"
  /\ ~Complete(req.body)
  /\ res.code = 400
  /\ res.error = "missing fields"

\* an update that changes item and/or size found both stock documents and
\* fewer than newQty units on the new counter
TransferShort ==
  /\ UpdateOfExisting
  /\ ~SameItemAndSize
  /\ OldOrder.itemId \in DOMAIN before.stocks
  /\ ToItemId \in DOMAIN before.stocks
  /\ Avail(before.stocks, ToItemId, ToSize) < ToQty

\* the short transfer is rejected, the order is kept and the old counter
\* stays raised by oldQty
ShortTransferKeepsRelease ==
  TransferShort =>
    /\ res.code = 400
    /\ res.available = Avail(before.stocks, ToItemId, ToSize)
    /\ orders = before.orders
    /\ Avail(stocks, OldOrder.itemId, OldOrder.size) =
         Avail(before.stocks, OldOrder.itemId, OldOrder.size) + OldOrder.qty
    /\ FrameExcept({<<OldOrder.itemId, OldOrder.size>>})

\* an update of an existing order, changing item and/or size, was rejected
\* after the release was saved
RejectedAfterRelease ==
  /\ UpdateOfExisting
  /\ ~SameItemAndSize
  /\ OldOrder.itemId \in DOMAIN before.stocks
  /\ res.code # 200

Cascaded == StockIdsOf(before.stocks, req.slug)

\* C13: after deleteCategory(slug) no stock of that category exists and no
\* order referencing one of those stocks exists, while the stocks of other
\* categories and the orders referencing them are unchanged.
CategoryCascade ==
  req.op = "deleteCategory" =>
    /\ res.code = 200
    /\ \A id \in DOMAIN stocks : stocks[id].category # req.slug
    /\ \A i \in DOMAIN orders : orders[i].itemId \notin Cascaded
    /\ \A id \in DOMAIN before.stocks \ Cascaded :
         id \in DOMAIN stocks /\ stocks[id] = before.stocks[id]
    /\ \A i \in DOMAIN before.orders :
         before.orders[i].itemId \notin Cascaded =>
           i \in DOMAIN orders /\ orders[i] = before.orders[i]

\* a category was deleted with a stock that an order referenced
CategoryCascadeSeen ==
  /\ req.op = "deleteCategory"
  /\ \E i \in DOMAIN before.orders : before.orders[i].itemId \in Cascaded
  /\ \E id \in DOMAIN stocks : TRUE

\* C16: deleting an existing order whose stock no longer exists succeeds,
\* removes the order and changes no counter.
DeleteWithMissingStock ==
  (/\ req.op = "delete"
   /\ req.id \in DOMAIN before.orders
   /\ before.orders[req.id].itemId \notin DOMAIN before.stocks)
  => /\ res.code = 200
     /\ DOMAIN orders = DOMAIN before.orders \ {req.id}
     /\ OtherOrdersKept(req.id)
     /\ stocks = before.stocks

\* an order was deleted after its stock
DeleteWithMissingStockSeen ==
  /\ req.op = "delete"
  /\ req.id \in DOMAIN before.orders
  /\ before.orders[req.id].itemId \notin DOMAIN before.stocks
  /\ req.id \notin DOMAIN orders

\* the handler running request p has answered
Done(p) == procs[p].pc = "done"

\* request p is a create that passed the field test and found its stock
CreateLoaded(p) ==
  /\ procs[p].pc # "idle"
  /\ procs[p].req.op = "create"
  /\ procs[p].doc.found

\* p and q are answered creates for the same stock, size and quantity, both
\* carrying a category, and q loaded the stock while p held its unsaved copy
RacedCreates(p, q) ==
  /\ p # q
  /\ Done(p) /\ Done(q)
  /\ CreateLoaded(p) /\ CreateLoaded(q)
  /\ procs[q].raced
  /\ procs[p].req.body.itemId = procs[q].req.body.itemId
  /\ procs[p].req.body.size = procs[q].req.body.size
  /\ Want(procs[p].req.body) = Want(procs[q].req.body)
  /\ ~OrderInvalid(procs[p].req.body)
  /\ ~OrderInvalid(procs[q].req.body)

\* C15: two creates for q units each on the same stock and size, both of
\* which load the stock before either saves it, read the same counter c,
\* both succeed, and leave two orders totalling 2q on a counter of c - q:
\* the counter reflects only one of the two adjustments.
LostUpdateOnCreate ==
  \A p, q \in Procs :
    RacedCreates(p, q) =>
      LET body == procs[p].req.body
          c == procs[p].read
          w == Want(body)
      IN /\ procs[q].read = c
         /\ w <= c
         /\ procs[p].res.code = 200
         /\ procs[q].res.code = 200
         /\ Avail(stocks, body.itemId, body.size) = c - w
         /\ orders[procs[p].res.orderId].qty
            + orders[procs[q].res.orderId].qty = 2 * w

\* two raced creates were answered on a counter too small for both
LostUpdateSeen ==
  \E p, q \in Procs :
    /\ RacedCreates(p, q)
    /\ procs[p].read < 2 * Want(procs[p].req.body)
    /\ procs[p].res.code = 200
    /\ procs[q].res.code = 200

\* C19: with every requested and stored quantity positive and no direct
\* stock edit, every stored counter, and every counter of a stock document
\* a handler is about to save, is >= 0 in every state of every interleaving
\* of the storage calls of concurrent creates, updates and deletes.
ConcNonNegative ==
  /\ \A id \in DOMAIN stocks :
       \A k \in DOMAIN stocks[id].sizes : stocks[id].sizes[k] >= 0
  /\ \A p \in Procs :
       (procs[p].pc # "idle" /\ procs[p].doc.found) =>
         \A k \in DOMAIN procs[p].doc.sizes : procs[p].doc.sizes[k] >= 0

\* an update or delete was accepted after it raced with another accepted
\* request on the same stock
ConcSeen ==
  \E p, q \in Procs :
    /\ p # q
    /\ Done(p) /\ Done(q)
    /\ procs[p].req.op \in {"update", "delete"}
    /\ procs[p].res.code = 200
    /\ procs[q].res.code = 200
    /\ procs[p].raced \/ procs[q].raced

\* C17: a create whose stock save returned and whose Order.create threw is
\* answered with a server error; the counter stays decremented by the
\* requested quantity, no order is stored, and nothing else is written.
CreateLeftHalfDone ==
  \A p \in DOMAIN procs :
    (Done(p) /\ procs[p].req.op = "create" /\ procs[p].threw = "cOrder")
    => LET body == procs[p].req.body
           was == procs[p].start
       IN /\ procs[p].res.code = 500
          /\ Avail(stocks, body.itemId, body.size)
             = Avail(was.stocks, body.itemId, body.size) - Want(body)
          /\ stocks = SaveSize(was.stocks, body.itemId, body.size,
                               Avail(stocks, body.itemId, body.size))
          /\ orders = was.orders

\* the storage threw in Order.create of a body that is valid
CreateLeftHalfDoneSeen ==
  \E p \in DOMAIN procs :
    /\ Done(p)
    /\ procs[p].req.op = "create"
    /\ procs[p].threw = "cOrder"
    /\ ~OrderInvalid(procs[p].req.body)
    /\ Want(procs[p].req.body) > 0

\* the stocks an accepted update leaves, from the collections it found
AdjustedByUpdate(was, id, body) ==
  LET old == was.orders[id]
      item == NewItemId(body, old.itemId)
      size == NewSize(body, old.size)
      qty == NewQty(body, old.qty)
      returned == ReturnToOld(was.stocks, old.itemId, old.size, old.qty)
  IN IF item = old.itemId /\ size = old.size
     THEN AdjustOnQtyChange(was.stocks, item, size,
                            Avail(was.stocks, item, size), qty - old.qty)
     ELSE TakeFromNew(returned, item, size, Avail(returned, item, size), qty)

\* C20: in every state, intermediate ones and those a failed write leaves
\* included: a create has stored its order only after the decremented
\* counter was saved, an update has changed its order only after every
\* stock adjustment was saved, and a delete has removed its order only
\* after the release was saved.
OrderWrittenAfterStock ==
  \A p \in DOMAIN procs :
    procs[p].pc # "idle" =>
      LET r == procs[p].req
          was == procs[p].start
      IN /\ (r.op = "create" /\ DOMAIN orders # DOMAIN was.orders)
              => /\ r.body.itemId \in DOMAIN stocks
                 /\ stocks = SaveSize(was.stocks, r.body.itemId, r.body.size,
                               Avail(was.stocks, r.body.itemId, r.body.size)
                               - Want(r.body))
         /\ (r.op = "update" /\ r.id \in DOMAIN was.orders
             /\ orders # was.orders)
              => stocks = AdjustedByUpdate(was, r.id, r.body)
         /\ (r.op = "delete" /\ r.id \in DOMAIN was.orders
             /\ orders # was.orders)
              => stocks = ReleaseOnDelete(was.stocks, was.orders[r.id])

\* an update moved its order to another item or size and was accepted
OrderWrittenSeen ==
  \E p \in DOMAIN procs :
    /\ Done(p)
    /\ procs[p].req.op = "update"
    /\ procs[p].res.code = 200
    /\ procs[p].req.id \in DOMAIN orders
    /\ orders[procs[p].req.id].itemId
       # procs[p].start.orders[procs[p].req.id].itemId

\* C18: two runs that answer the same creates, updates and deletes and
\* differ only in the status values supplied to, and so stored on, the
\* orders give the same answer to every request and hold the same counters
\* after every request.
StatusBlind ==
  /\ runs.left.res = runs.right.res
  /\ runs.left.stocks = runs.right.stocks
  /\ DOMAIN runs.left.orders = DOMAIN runs.right.orders
  /\ \A i \in DOMAIN runs.left.orders :
       [runs.left.orders[i] EXCEPT !.status = DefaultStatus]
       = [runs.right.orders[i] EXCEPT !.status = DefaultStatus]

\* both runs accepted an update of an order that is labelled cancelled in
\* one of them and pending in the other
StatusBlindSeen ==
  /\ runs.op = "update"
  /\ runs.left.res.code = 200
  /\ runs.left.res.orderId \in DOMAIN runs.left.orders
  /\ runs.left.orders[runs.left.res.orderId].status = "cancelled"
  /\ runs.right.orders[runs.left.res.orderId].status = "pending"

====
